---- MODULE Spec2Model ----
(***************************************************************************)
(* Model of Node-MPV's IPC layer (src/src/lib/ipcInterface/ipcInterface.ts *)
(* and src/src/lib/error.ts).                                              *)
(*                                                                         *)
(* One ipcInterface object talks to the player over one net.Socket.  The   *)
(* player writes '\n'-terminated JSON texts; the socket hands them to      *)
(* dataHandler in chunks of arbitrary length.  JavaScript runs one handler *)
(* at a time, so every handler is one atomic action.                       *)
(*                                                                         *)
(* A JSON text is modelled by its bytes: an object text is an opening and  *)
(* a closing byte that carry the object, so that a text cut by a chunk     *)
(* boundary is two fragments, neither of which JSON.parse accepts.         *)
(*                                                                         *)
(* The second part models mpv.load (src/unnamed/part_000): the call, the   *)
(* callback of the observing socket's connect, and the 'data' listener the *)
(* callback attaches.  It has its own specification, LoadSpec.             *)
(***************************************************************************)
EXTENDS Integers, Sequences, FiniteSets, TLC

\* ------------------------------------------------------------------ bounds
MaxSends == 2       \* send() calls in one run
MaxPeerMsgs == 2    \* lines the player writes in one run
MaxSubs == 2        \* listeners of the ipcInterface's 'message' event
MaxPlaylist == 3    \* entries of the player's playlist before load is called
MaxChunkMsgs == 2   \* lines in one delivery on the observing socket
MaxDeliveries == 11 \* deliveries on the observing socket in one run

VARIABLES
    socket,        \* state of this.socket: "fresh", "connecting", "open", "destroyed"
    sockListeners, \* events of this.socket that have a listener attached
    ipcRequests,   \* this.ipcRequests: request_id -> args of the ipcRequest
    nextId,        \* the next value cuid() returns
    calls,         \* the send() calls made so far, with the state of each returned promise
    written,       \* request_ids of the messages that reached the player
    txLog,         \* every byte the player wrote to the socket
    rxCount,       \* how many bytes of txLog the 'data' event has delivered
    subs,          \* the listeners registered for 'message'
    log,           \* what each listener has been called with
    parsed,        \* history: the objects JSON.parse returned to dataHandler, in order
    last           \* history: the last handler that ran, and what it started from

VARIABLES
    running,       \* this.running of the mpv object
    playlist,      \* the number of entries of the player's playlist
    lmode,         \* the mode load was called with
    loadOutcome,   \* the promise load returned: its state and value
    observeSocket, \* state of observeSocket: "none", "connecting", "open", "destroyed"
    obsListening,  \* observeSocket has the 'data' listener
    cb,            \* where the connect callback is: "none", "awaitCommand",
                   \* "awaitSize", "rejected", "done", "watching"
    cbErr,         \* what the callback's promise was rejected with
    issued,        \* the requests load made through the mpv object
    timeout,       \* the callback's local `timeout`
    started,       \* the callback's local `started`
    concl,         \* history: the conclusions of the session, in order
    uncaught,      \* history: what the 'data' listener and the socket threw
    llast,         \* history: the last delivery on observeSocket
    plBefore       \* history: the playlist's length when load was called

ipcVars == <<socket, sockListeners, ipcRequests, nextId, calls, written, txLog,
             rxCount, subs, log, parsed, last>>
loadVars == <<running, playlist, lmode, loadOutcome, observeSocket, obsListening,
              cb, cbErr, issued, timeout, started, concl, uncaught, llast, plBefore>>
vars == <<socket, sockListeners, ipcRequests, nextId, calls, written, txLog,
          rxCount, subs, log, parsed, last,
          running, playlist, lmode, loadOutcome, observeSocket, obsListening,
          cb, cbErr, issued, timeout, started, concl, uncaught, llast, plBefore>>

\* ------------------------------------------------------------ JSON values
NoRid == -1                       \* the object has no request_id property
SpuriousId == MaxSends + 1        \* an identifier cuid() never returned
Range(s) == {s[i] : i \in DOMAIN s}

\* the object of a message of the player
Message(rid, error, data, event) ==
    [request_id |-> rid, error |-> error, data |-> data, event |-> event]
NoMessage == Message(NoRid, "", -1, "")

\* JSON.stringify of an object, and the bytes of a line that is not JSON
JSONstringify(m) == <<[part |-> "open", obj |-> m], [part |-> "close", obj |-> m]>>
Junk == <<[part |-> "junk", obj |-> NoMessage]>>
NL == [part |-> "nl", obj |-> NoMessage]

\* JSON.parse: only a whole object text parses, anything else is a SyntaxError
JSONparse(text) ==
    IF /\ Len(text) = 2
       /\ text[1].part = "open"
       /\ text[2].part = "close"
       /\ text[1].obj = text[2].obj
    THEN [ok |-> TRUE, obj |-> text[1].obj]
    ELSE [ok |-> FALSE, obj |-> NoMessage]

\* String.prototype.split('\n'): the pieces between the line breaks, the
\* empty ones included ("a\n" gives "a" and "")
RECURSIVE splitFrom(_, _, _)
splitFrom(data, piece, pieces) ==
    IF data = <<>> THEN Append(pieces, piece)
    ELSE IF Head(data).part = "nl"
         THEN splitFrom(Tail(data), <<>>, Append(pieces, piece))
         ELSE splitFrom(Tail(data), Append(piece, Head(data)), pieces)
split(data) == splitFrom(data, <<>>, <<>>)

\* ------------------------------------------------------------- error.ts
messageDict ==
    [c \in 0..8 |->
        CASE c = 0 -> "Unable to load file or stream"
          [] c = 1 -> "Invalid argument"
          [] c = 2 -> "Binary not found"
          [] c = 3 -> "ipcCommand invalid"
          [] c = 4 -> "Unable to bind IPC socket"
          [] c = 5 -> "Timeout"
          [] c = 6 -> "MPV is already running"
          [] c = 7 -> "Could not send IPC message"
          [] c = 8 -> "MPV is not running"]

\* what a promise is settled with
Value(kind, errcode, verbose, method, args, errmessage, data) ==
    [kind |-> kind, errcode |-> errcode, verbose |-> verbose, method |-> method,
     arguments |-> args, errmessage |-> errmessage, data |-> data]
Undefined == Value("undefined", -1, "", "", <<>>, "", -1)
DataValue(d) == Value("data", -1, "", "", <<>>, "", d)
ReferenceError == Value("ReferenceError", -1, "", "", <<>>, "", -1)

errorMessage(errorCode, method, args, errMessage) ==
    Value("ErrorObject", errorCode, messageDict[errorCode], method, args, errMessage, -1)

\* ------------------------------------------------------------ ipcRequest
\* The completion handle of an ipcRequest settles the promise of the send
\* call that registered it, unless that promise is settled already.
settle(cs, rid, st, val) ==
    [i \in DOMAIN cs |->
        IF cs[i].request_id = rid /\ cs[i].st = "pending"
        THEN [cs[i] EXCEPT !.st = st, !.val = val]
        ELSE cs[i]]
ipcRequestResolve(cs, reqs, rid, data) == settle(cs, rid, "resolved", DataValue(data))
ipcRequestReject(cs, reqs, rid, err) ==
    settle(cs, rid, "rejected", errorMessage(3, "caller()", reqs[rid], err))

\* ----------------------------------------------------------- the commands
\* The command lists the facade hands to send; the second cannot be
\* serialised (JSON.stringify throws on a BigInt or a circular value).
Commands == { <<"get_property", "volume">>, <<"set_property", "volume", "BigInt">> }
stringifyThrows(command) == "BigInt" \in Range(command)

\* Object.values(command).splice(1)
argsOf(command) == Tail(command)

Remove(f, k) == [x \in (DOMAIN f) \ {k} |-> f[x]]
Put(f, k, v) == [x \in (DOMAIN f) \cup {k} |-> IF x = k THEN v ELSE f[x]]

EmptyTable == [x \in {} |-> <<>>]

\* the number of lines the player has written
Lines == Cardinality({i \in DOMAIN txLog : txLog[i].part = "nl"})

\* history record of a handler: its name, the exception it threw, the pieces
\* of the chunk it was given, and the table and history it started from
Last(op, thrown, frags) ==
    [op |-> op, thrown |-> thrown, frags |-> frags,
     pre |-> DOMAIN ipcRequests, n0 |-> Len(parsed)]

\* ------------------------------------------------------------------- Init
\* constructor: an empty table and a net.Socket that was never connected
IpcInit ==
    /\ socket = "fresh"
    /\ sockListeners = {}
    /\ ipcRequests = EmptyTable
    /\ nextId = 1
    /\ calls = <<>>
    /\ written = <<>>
    /\ txLog = <<>>
    /\ rxCount = 0
    /\ subs = {}
    /\ log = [s \in 1..MaxSubs |-> <<>>]
    /\ parsed = <<>>
    /\ last = [op |-> "new", thrown |-> "none", frags |-> <<>>, pre |-> {}, n0 |-> 0]

\* the mpv object before load is called
NoDelivery == [op |-> "none", data |-> <<>>, started0 |-> FALSE, timeout0 |-> 0]
LoadNotCalled ==
    /\ lmode = "replace"
    /\ loadOutcome = [st |-> "none", val |-> Undefined]
    /\ observeSocket = "none"
    /\ obsListening = FALSE
    /\ cb = "none"
    /\ cbErr = Undefined
    /\ issued = <<>>
    /\ timeout = 0
    /\ started = FALSE
    /\ concl = <<>>
    /\ uncaught = {}
    /\ llast = NoDelivery
    /\ plBefore = playlist

\* the IPC layer alone: the player is not running and load is never called
Init ==
    /\ IpcInit
    /\ running = FALSE
    /\ playlist = 0
    /\ LoadNotCalled

\* ---------------------------------------------------------------- connect
\* connect(): the socket starts connecting; nothing listens yet
connect ==
    /\ socket = "fresh"
    /\ socket' = "connecting"
    /\ UNCHANGED <<sockListeners, ipcRequests, nextId, calls, written, txLog,
                   rxCount, subs, log, parsed, last>>
    /\ UNCHANGED loadVars

\* the callback of socket.connect: the three listeners are attached
onConnect ==
    /\ socket = "connecting"
    /\ socket' = "open"
    /\ sockListeners' = sockListeners \cup {"close", "error", "data"}
    /\ UNCHANGED <<ipcRequests, nextId, calls, written, txLog, rxCount, subs,
                   log, parsed, last>>
    /\ UNCHANGED loadVars

\* the player is not listening: the socket is destroyed, the callback never runs
connectFails ==
    /\ socket = "connecting"
    /\ socket' = "destroyed"
    /\ written' = <<>>
    /\ UNCHANGED <<sockListeners, ipcRequests, nextId, calls, txLog, rxCount,
                   subs, log, parsed, last>>
    /\ UNCHANGED loadVars

\* ------------------------------------------------------------------- send
\* a send() call: the identifier it drew (0 if none), the socket's state when
\* it was made, its command, the state and value of the promise it returned,
\* and whether the player had written nothing by then
Call(rid, sock, command, st, val) ==
    [request_id |-> rid, sock |-> sock, command |-> command, st |-> st, val |-> val,
     quiet |-> (Lines = 0)]

\* send on a destroyed socket: throws error 8 before anything is registered
sendNotRunning(command) ==
    /\ socket = "destroyed"
    /\ calls' = Append(calls, Call(0, socket, command, "rejected",
                                   errorMessage(8, "caller()", <<>>, "")))
    /\ last' = Last("send", "NotRunning", <<>>)
    /\ UNCHANGED <<socket, sockListeners, ipcRequests, nextId, written, txLog,
                   rxCount, subs, log, parsed>>
    /\ UNCHANGED loadVars

\* send when JSON.stringify / socket.write throws: the catch block evaluates
\* the undeclared name `message`, so a ReferenceError leaves send and the
\* entry registered before the try stays in the table
sendWriteThrows(command) ==
    /\ socket # "destroyed"
    /\ stringifyThrows(command)
    /\ LET request_id == nextId
           registered == Put(ipcRequests, request_id, argsOf(command))
       IN /\ nextId' = nextId + 1
          /\ ipcRequests' = registered
          /\ calls' = Append(calls, Call(request_id, socket, command, "rejected",
                                         ReferenceError))
    /\ last' = Last("send", "ReferenceError", <<>>)
    /\ UNCHANGED <<socket, sockListeners, written, txLog, rxCount, subs, log, parsed>>
    /\ UNCHANGED loadVars

\* send when the write returns: the entry is registered, the message is
\* written, the entry is deleted again, and the async function returns
\* undefined, which settles its promise.  A write on a socket that was never
\* connected does not throw; the bytes go nowhere and the runtime may destroy
\* the socket.
sendWrites(command) ==
    /\ socket # "destroyed"
    /\ ~stringifyThrows(command)
    /\ LET request_id == nextId
           registered == Put(ipcRequests, request_id, argsOf(command))
       IN /\ nextId' = nextId + 1
          /\ ipcRequests' = Remove(registered, request_id)
          /\ calls' = Append(calls, Call(request_id, socket, command, "resolved",
                                         Undefined))
          /\ written' = IF socket \in {"connecting", "open"}
                        THEN Append(written, request_id) ELSE written
    /\ socket' \in (IF socket = "fresh" THEN {"fresh", "destroyed"} ELSE {socket})
    /\ last' = Last("send", "none", <<>>)
    /\ UNCHANGED <<sockListeners, txLog, rxCount, subs, log, parsed>>
    /\ UNCHANGED loadVars

send ==
    /\ Len(calls) < MaxSends
    /\ \E command \in Commands :
          \/ sendNotRunning(command)
          \/ sendWriteThrows(command)
          \/ sendWrites(command)

\* ------------------------------------------------------------ dataHandler
\* a faulty emit that calls the first registered listener only
emitFirstOnly(lg, listeners, obj) ==
    [s \in DOMAIN lg |->
        IF s \in listeners /\ (\A t \in listeners : s <= t)
        THEN Append(lg[s], obj) ELSE lg[s]]

\* EventEmitter.emit('message', obj): every registered listener is called once
emit(lg, listeners, obj) ==
    [s \in DOMAIN lg |-> IF s \in listeners THEN Append(lg[s], obj) ELSE lg[s]]

\* the truthiness test of line 100: request_id is present and not 0
hasRequestId(JSONmessage) ==
    JSONmessage.request_id # NoRid /\ JSONmessage.request_id # 0

\* the body of messages.forEach for one piece of the chunk.  st carries the
\* table, the promises, the listeners' logs and the exception thrown, if any.
onMessage(st, message) ==
    IF Len(message) = 0 THEN st
    ELSE LET p == JSONparse(message) IN
         IF ~p.ok THEN [st EXCEPT !.thrown = "SyntaxError"]
         ELSE LET JSONmessage == p.obj
                  rid == JSONmessage.request_id
                  st1 == [st EXCEPT !.parsed = Append(@, JSONmessage)]
              IN IF hasRequestId(JSONmessage)
                 THEN IF rid \notin DOMAIN st.ipcRequests
                      THEN \* this.ipcRequests[rid] is undefined
                           [st1 EXCEPT !.thrown = "TypeError"]
                      ELSE IF JSONmessage.error = "success"
                      THEN [st1 EXCEPT
                              !.calls = ipcRequestResolve(@, st.ipcRequests, rid,
                                                          JSONmessage.data),
                              !.ipcRequests = Remove(@, rid)]
                      ELSE [st1 EXCEPT
                              !.calls = ipcRequestReject(@, st.ipcRequests, rid,
                                                         JSONmessage.error),
                              !.ipcRequests = Remove(@, rid)]
                 ELSE [st1 EXCEPT !.log = emit(@, subs, JSONmessage)]

\* messages.forEach: the pieces in order; an exception ends the loop
RECURSIVE forEach(_, _)
forEach(st, messages) ==
    IF messages = <<>> \/ st.thrown # "none" THEN st
    ELSE forEach(onMessage(st, Head(messages)), Tail(messages))

dataHandlerResult(data) ==
    forEach([ipcRequests |-> ipcRequests, calls |-> calls, log |-> log,
             parsed |-> parsed, thrown |-> "none"],
            split(data))

\* the 'data' event: the socket delivers the next n bytes to dataHandler
dataHandler ==
    /\ socket = "open"
    /\ "data" \in sockListeners
    /\ \E n \in 1..(Len(txLog) - rxCount) :
          LET data == SubSeq(txLog, rxCount + 1, rxCount + n)
              st == dataHandlerResult(data)
          IN /\ rxCount' = rxCount + n
             /\ ipcRequests' = st.ipcRequests
             /\ calls' = st.calls
             /\ log' = st.log
             /\ parsed' = st.parsed
             /\ last' = Last("data", st.thrown, split(data))
    /\ UNCHANGED <<socket, sockListeners, nextId, written, txLog, subs>>
    /\ UNCHANGED loadVars

\* ------------------------------------------------------------- the player
\* the lines the player may write next: a response to a request it received
\* or to an identifier nobody waits for, an event without request_id or with
\* request_id 0, a line that is not JSON, an empty line
PeerLines ==
    {JSONstringify(Message(rid, err, Lines + 1, "")) :
        rid \in Range(written) \cup {SpuriousId},
        err \in {"success", "property unavailable"}}
    \cup {JSONstringify(Message(rid, "", Lines + 1, "pause")) : rid \in {NoRid, 0}}
    \cup {Junk, <<>>}

peerWrites ==
    /\ socket = "open"
    /\ Lines < MaxPeerMsgs
    /\ \E line \in PeerLines : txLog' = txLog \o line \o <<NL>>
    /\ UNCHANGED <<socket, sockListeners, ipcRequests, nextId, calls, written,
                   rxCount, subs, log, parsed, last>>
    /\ UNCHANGED loadVars

\* ----------------------------------------------------- closeHandler, quit
\* the player closes the connection, after everything it wrote was read:
\* closeHandler destroys the socket and does nothing else
closeHandler ==
    /\ socket = "open"
    /\ "close" \in sockListeners
    /\ rxCount = Len(txLog)
    /\ socket' = "destroyed"
    /\ last' = Last("close", "none", <<>>)
    /\ UNCHANGED <<sockListeners, ipcRequests, nextId, calls, written, txLog,
                   rxCount, subs, log, parsed>>
    /\ UNCHANGED loadVars

\* a faulty quit that replaces the destroyed socket by a new one
quitRenews ==
    /\ sockListeners' = sockListeners \ {"close", "error", "data"}
    /\ socket' = "fresh"
    /\ txLog' = SubSeq(txLog, 1, rxCount)
    /\ last' = Last("quit", "none", <<>>)
    /\ UNCHANGED <<ipcRequests, nextId, calls, written, rxCount, subs, log, parsed>>
    /\ UNCHANGED loadVars

\* quit(): the socket's listeners are removed and the socket destroyed; what
\* the player wrote and nobody read is lost
quit ==
    /\ sockListeners' = sockListeners \ {"close", "error", "data"}
    /\ socket' = "destroyed"
    /\ txLog' = SubSeq(txLog, 1, rxCount)
    /\ last' = Last("quit", "none", <<>>)
    /\ UNCHANGED <<ipcRequests, nextId, calls, written, rxCount, subs, log, parsed>>
    /\ UNCHANGED loadVars

\* ------------------------------------------------------ the 'message' event
\* on('message', listener) and removeListener('message', listener).  Listeners
\* are interchangeable, so a new one takes the lowest free number; after the
\* socket is destroyed nothing is emitted any more, so registrations made then
\* are not explored.
subscribe ==
    /\ socket # "destroyed"
    /\ \E s \in (1..MaxSubs) \ subs :
          /\ \A t \in (1..MaxSubs) \ subs : s <= t
          /\ subs' = subs \cup {s}
    /\ UNCHANGED <<socket, sockListeners, ipcRequests, nextId, calls, written,
                   txLog, rxCount, log, parsed, last>>
    /\ UNCHANGED loadVars

unsubscribe ==
    /\ socket # "destroyed"
    /\ \E s \in subs : subs' = subs \ {s}
    /\ UNCHANGED <<socket, sockListeners, ipcRequests, nextId, calls, written,
                   txLog, rxCount, log, parsed, last>>
    /\ UNCHANGED loadVars

\* ------------------------------------------------------------------- Spec
Next ==
    \/ connect
    \/ onConnect
    \/ connectFails
    \/ send
    \/ peerWrites
    \/ dataHandler
    \/ closeHandler
    \/ quit
    \/ subscribe
    \/ unsubscribe

Spec == Init /\ [][Next]_vars

TypeOK ==
    /\ socket \in {"fresh", "connecting", "open", "destroyed"}
    /\ DOMAIN ipcRequests \subseteq 1..MaxSends
    /\ rxCount \in 0..Len(txLog)

\* =================================================================== load
TimeoutLimit == 10
LoadModes == {"replace", "append", "append-play"}
File == "file.mkv"

\* a faulty mode test that lets every mode pass
validModeAny(mode) == mode \in LoadModes \cup {"shuffle"}

\* ['replace', 'append', 'append-play'].includes(mode)
validMode(mode) == mode \in LoadModes

\* the mpv object when load is called: the player runs or not, and its
\* playlist has some entries
LoadInit ==
    /\ IpcInit
    /\ running \in BOOLEAN
    /\ playlist \in 0..MaxPlaylist
    /\ LoadNotCalled

\* load called while the player is not running: error 8 is thrown
loadNotRunning(mode) ==
    /\ ~running
    /\ lmode' = mode
    /\ loadOutcome' = [st |-> "rejected",
                       val |-> errorMessage(8, "load()", <<File, mode>>, "")]
    /\ UNCHANGED <<running, playlist, observeSocket, obsListening, cb, cbErr,
                   issued, timeout, started, concl, uncaught, llast, plBefore>>

\* load called with a mode that is none of the three: error 1 is thrown
loadInvalidMode(mode) ==
    /\ running
    /\ ~validMode(mode)
    /\ lmode' = mode
    /\ loadOutcome' = [st |-> "rejected",
                       val |-> errorMessage(1, "load()", <<File, mode>>, "")]
    /\ UNCHANGED <<running, playlist, observeSocket, obsListening, cb, cbErr,
                   issued, timeout, started, concl, uncaught, llast, plBefore>>

\* load creates observeSocket and calls connect with the callback; nothing is
\* awaited, so the async function returns and its promise is resolved
loadConnects(mode) ==
    /\ running
    /\ validMode(mode)
    /\ lmode' = mode
    /\ observeSocket' = "connecting"
    /\ loadOutcome' = [st |-> "resolved", val |-> Undefined]
    /\ UNCHANGED <<running, playlist, obsListening, cb, cbErr, issued, timeout,
                   started, concl, uncaught, llast, plBefore>>

load ==
    /\ loadOutcome.st = "none"
    /\ \E mode \in LoadModes \cup {"shuffle"} :
          \/ loadNotRunning(mode)
          \/ loadInvalidMode(mode)
          \/ loadConnects(mode)
    /\ UNCHANGED ipcVars

\* the connect callback starts: it issues the loadfile command and awaits it
obsConnected ==
    /\ observeSocket = "connecting"
    /\ observeSocket' = "open"
    /\ cb' = "awaitCommand"
    /\ issued' = Append(issued, "loadfile")
    /\ UNCHANGED <<running, playlist, lmode, loadOutcome, obsListening, cbErr,
                   timeout, started, concl, uncaught, llast, plBefore>>
    /\ UNCHANGED ipcVars

ConnectionError == Value("ConnectionError", -1, "", "", <<>>, "", -1)
SyntaxError == Value("SyntaxError", -1, "", "", <<>>, "", -1)

\* the player does not accept the connection: the socket emits 'error', for
\* which it has no listener, and is destroyed; the callback never runs
obsConnectFails ==
    /\ observeSocket = "connecting"
    /\ observeSocket' = "destroyed"
    /\ uncaught' = uncaught \cup {ConnectionError}
    /\ UNCHANGED <<running, playlist, lmode, loadOutcome, obsListening, cb, cbErr,
                   issued, timeout, started, concl, llast, plBefore>>
    /\ UNCHANGED ipcVars

\* this.command('loadfile', ...): the command succeeds, and the player has
\* then replaced its playlist by the file or appended the file to it, or the
\* command fails
CommandError == errorMessage(3, "load()", <<File>>, "command failed")
afterLoadfile(mode, n) == IF mode = "replace" THEN 1 ELSE n + 1

\* the awaited loadfile command settles; a failure is thrown inside the
\* callback, which rejects the promise of the callback and nothing else
commandSettles ==
    /\ cb = "awaitCommand"
    /\ \/ /\ playlist' = afterLoadfile(lmode, playlist)
          /\ cb' = "awaitSize"
          /\ issued' = Append(issued, "playlist-count")
          /\ UNCHANGED cbErr
       \/ /\ cb' = "rejected"
          /\ cbErr' = CommandError
          /\ UNCHANGED <<playlist, issued>>
    /\ UNCHANGED <<running, lmode, loadOutcome, observeSocket, obsListening,
                   timeout, started, concl, uncaught, llast, plBefore>>
    /\ UNCHANGED ipcVars

\* this.getPlaylistSize(): the current length of the player's playlist
getPlaylistSize == playlist

\* a faulty test with the threshold one lower
silentSuccessFromOne(mode, playlistSize) ==
    \/ mode = "append"
    \/ mode = "append-play" /\ playlistSize >= 1

\* a faulty test that forgets the append mode
silentSuccessNoAppend(mode, playlistSize) ==
    mode = "append-play" /\ playlistSize > 1

\* the two tests after which the callback destroys the socket and returns
silentSuccess(mode, playlistSize) ==
    \/ mode = "append"
    \/ mode = "append-play" /\ playlistSize > 1

\* the awaited playlist size settles: the callback destroys the socket and
\* returns, or sets timeout and started and attaches the 'data' listener; a
\* failure of the query rejects the promise of the callback
sizeSettles ==
    /\ cb = "awaitSize"
    /\ \/ /\ silentSuccess(lmode, getPlaylistSize)
          /\ observeSocket' = "destroyed"
          /\ concl' = Append(concl, "SilentSuccess")
          /\ cb' = "done"
          /\ UNCHANGED <<obsListening, timeout, started, cbErr>>
       \/ /\ ~silentSuccess(lmode, getPlaylistSize)
          /\ timeout' = 0
          /\ started' = FALSE
          /\ obsListening' = TRUE
          /\ cb' = "watching"
          /\ UNCHANGED <<observeSocket, concl, cbErr>>
       \/ /\ cb' = "rejected"
          /\ cbErr' = CommandError
          /\ UNCHANGED <<observeSocket, obsListening, timeout, started, concl>>
    /\ UNCHANGED <<running, playlist, lmode, loadOutcome, issued, uncaught, llast,
                   plBefore>>
    /\ UNCHANGED ipcVars

\* the events the player reports on the observing socket, each one a line
ObsEvents == {"start-file", "file-loaded", "end-file", "pause"}
EventText(e) == JSONstringify(Message(NoRid, "", -1, e))
ObsLines == {EventText(e) : e \in ObsEvents} \cup {Junk}
RECURSIVE Terminated(_)
Terminated(lines) ==
    IF lines = <<>> THEN <<>>
    ELSE Head(lines) \o <<NL>> \o Terminated(Tail(lines))
ObsChunks ==
    UNION {{Terminated(ls) : ls \in [1..n -> ObsLines]} : n \in 1..MaxChunkMsgs}

\* a faulty listener body that takes file-loaded for a success at any time
onObsMessageAnyLoaded(st, messageStr) ==
    IF Len(messageStr) = 0 THEN st
    ELSE LET p == JSONparse(messageStr) IN
         IF ~p.ok THEN [st EXCEPT !.thrown = SyntaxError]
         ELSE LET message == p.obj IN
              IF message.event = "" THEN st
              ELSE IF message.event = "start-file"
              THEN [st EXCEPT !.started = TRUE]
              ELSE IF message.event = "file-loaded"
              THEN [st EXCEPT !.destroyed = TRUE,
                              !.concl = Append(@, "Success")]
              ELSE IF message.event = "end-file" /\ st.started
              THEN [st EXCEPT !.destroyed = TRUE,
                              !.concl = Append(@, "Failed"),
                              !.thrown = errorMessage(0, "load()", <<File>>, "")]
              ELSE st

\* the body of messages.forEach in the 'data' listener for one piece.  st
\* carries `started`, whether destroy() was called, the conclusions and the
\* exception thrown, if any.  The `return` of the file-loaded branch leaves
\* the body only: the loop goes on with the next piece.
onObsMessage(st, messageStr) ==
    IF Len(messageStr) = 0 THEN st
    ELSE LET p == JSONparse(messageStr) IN
         IF ~p.ok THEN [st EXCEPT !.thrown = SyntaxError]
         ELSE LET message == p.obj IN
              IF message.event = "" THEN st
              ELSE IF message.event = "start-file"
              THEN [st EXCEPT !.started = TRUE]
              ELSE IF message.event = "file-loaded" /\ st.started
              THEN [st EXCEPT !.destroyed = TRUE,
                              !.concl = Append(@, "Success")]
              ELSE IF message.event = "end-file" /\ st.started
              THEN [st EXCEPT !.destroyed = TRUE,
                              !.concl = Append(@, "Failed"),
                              !.thrown = errorMessage(0, "load()", <<File>>, "")]
              ELSE st

\* messages.forEach of the listener: an exception ends the loop
RECURSIVE obsForEach(_, _)
obsForEach(st, messages) ==
    IF messages = <<>> \/ st.thrown # Undefined THEN st
    ELSE obsForEach(onObsMessage(st, Head(messages)), Tail(messages))

\* the test after the loop
timedOut(t) == t > TimeoutLimit

\* the whole listener: the loop, then the timeout test unless the loop threw
obsListener(data, t) ==
    LET st == obsForEach([started |-> started, destroyed |-> FALSE,
                          concl |-> concl, thrown |-> Undefined],
                         split(data))
    IN IF st.thrown = Undefined /\ timedOut(t)
       THEN [st EXCEPT !.destroyed = TRUE,
                       !.concl = Append(@, "TimedOut"),
                       !.thrown = errorMessage(5, "load()", <<File>>, "")]
       ELSE st

\* the 'data' event of observeSocket: the player's next lines arrive; what
\* the listener throws is an uncaught exception of the process
obsData ==
    /\ observeSocket = "open"
    /\ obsListening
    /\ timeout < MaxDeliveries
    /\ \E data \in ObsChunks :
          \E st \in {obsListener(data, timeout + 1)} :
             /\ timeout' = timeout + 1
             /\ started' = st.started
             /\ concl' = st.concl
             /\ observeSocket' = IF st.destroyed THEN "destroyed" ELSE observeSocket
             /\ uncaught' = IF st.thrown = Undefined THEN uncaught
                            ELSE uncaught \cup {st.thrown}
             /\ llast' = [op |-> "data", data |-> data, started0 |-> started,
                          timeout0 |-> timeout]
    /\ UNCHANGED <<running, playlist, lmode, loadOutcome, obsListening, cb, cbErr,
                   issued, plBefore>>
    /\ UNCHANGED ipcVars

LoadNext ==
    \/ load
    \/ obsConnected
    \/ obsConnectFails
    \/ commandSettles
    \/ sizeSettles
    \/ obsData

LoadSpec == LoadInit /\ [][LoadNext]_vars

LoadTypeOK ==
    /\ timeout \in 0..MaxDeliveries
    /\ observeSocket \in {"none", "connecting", "open", "destroyed"}
    /\ cb \in {"none", "awaitCommand", "awaitSize", "rejected", "done", "watching"}
    /\ Len(issued) <= 2

\* ================================================================ claims
IsEvent(m) == m.request_id \in {NoRid, 0}
IsResponse(m) == ~IsEvent(m)

\* the messages dataHandler parsed in its last run
NewParsed == SubSeq(parsed, last.n0 + 1, Len(parsed))

\* the send calls made on an open connection whose message reached the player
SentConnected == {i \in DOMAIN calls : calls[i].sock = "open"
                                        /\ calls[i].request_id \in Range(written)}

\* the positions in the history of the responses to call i
ResponsesTo(i) == {k \in DOMAIN parsed : parsed[k].request_id = calls[i].request_id}

\* the pieces of the last chunk that are whole JSON texts
WellFormed(frags) == {j \in DOMAIN frags : JSONparse(frags[j]).ok}

\* C1: the promise of a send made on an open connection is not settled before
\* dataHandler has processed the response with its request_id.
C1_SettledOnlyByResponse ==
    \A i \in SentConnected : calls[i].st # "pending" => ResponsesTo(i) # {}

\* C2: after dataHandler has dispatched a response with error 'success' to a
\* command sent while connected, that command's promise is resolved with the
\* response's data, and its entry and no other has left the table.
C2_SuccessResolves ==
    last.op = "data" =>
        \A k \in (last.n0 + 1)..Len(parsed) : \A i \in SentConnected :
            (k \in ResponsesTo(i) /\ parsed[k].error = "success") =>
                /\ calls[i].st = "resolved"
                /\ calls[i].val = DataValue(parsed[k].data)
                /\ calls[i].request_id \notin DOMAIN ipcRequests
                /\ last.pre \ {m.request_id : m \in Range(NewParsed)}
                       \subseteq DOMAIN ipcRequests

\* C3: a dataHandler run that dispatches a response with an error other than
\* 'success' to a command sent while connected rejects that command's promise
\* with the error object carrying the player's error string, and leaves the
\* promise of every command it got no response for as it was.
C3_FailureRejects ==
    [][rxCount' > rxCount =>
         \A k \in (Len(parsed) + 1)..Len(parsed') : \A i \in DOMAIN calls :
            ( /\ calls[i].sock = "open"
              /\ calls[i].request_id \in Range(written)
              /\ parsed'[k].request_id = calls[i].request_id
              /\ parsed'[k].error # "success" ) =>
                /\ calls'[i].st = "rejected"
                /\ calls'[i].val.kind = "ErrorObject"
                /\ calls'[i].val.errmessage = parsed'[k].error
                /\ \A j \in DOMAIN calls :
                      (\A n \in (Len(parsed) + 1)..Len(parsed') :
                          parsed'[n].request_id # calls[j].request_id)
                      => calls'[j] = calls[j]
      ]_vars

\* C4: when N >= 2 commands were sent before the player wrote anything, and the
\* player answered each of them once, in any order, and all of it was
\* delivered, every promise is settled with the outcome of the response that
\* carries its own request_id.
AllOutstandingAnswered ==
    /\ Len(calls) >= 2
    /\ SentConnected = DOMAIN calls
    /\ \A i \in DOMAIN calls : calls[i].quiet
    /\ rxCount = Len(txLog)
    /\ Lines = Len(calls)
    /\ \A i \in DOMAIN calls :
          \E a \in DOMAIN txLog :
             /\ txLog[a].part = "open"
             /\ txLog[a].obj.request_id = calls[i].request_id
Outcome(m) ==
    IF m.error = "success" THEN [st |-> "resolved", data |-> m.data, err |-> ""]
    ELSE [st |-> "rejected", data |-> -1, err |-> m.error]
C4_EachMatchedOnce ==
    AllOutstandingAnswered =>
        \A i \in DOMAIN calls :
           \E a \in DOMAIN txLog :
              /\ txLog[a].part = "open"
              /\ txLog[a].obj.request_id = calls[i].request_id
              /\ Outcome(txLog[a].obj) =
                    [st |-> calls[i].st, data |-> calls[i].val.data,
                     err |-> calls[i].val.errmessage]

\* C5: a send called while the socket was never connected or is destroyed
\* fails with error 8 (MPV is not running) and leaves the table as it was.
C5_SendDisconnectedFails ==
    (last.op = "send" /\ calls[Len(calls)].sock \in {"fresh", "destroyed"}) =>
        /\ calls[Len(calls)].st = "rejected"
        /\ calls[Len(calls)].val.errcode = 8
        /\ DOMAIN ipcRequests = last.pre

\* C6: when the player has closed the connection, the table is empty and the
\* promise of every command that had reached the player and had no response
\* yet is rejected with ConnectionLost.
C6_CloseFailsPending ==
    last.op = "close" =>
        /\ DOMAIN ipcRequests = {}
        /\ \A i \in SentConnected :
              ResponsesTo(i) = {} =>
                 calls[i].st = "rejected" /\ calls[i].val.kind = "ConnectionLost"

\* C7: a chunk of whole JSON texts, one of them a response whose request_id
\* has no entry in the table, makes dataHandler throw nothing, leaves the
\* entries of other identifiers in the table, and has every text dispatched.
UnmatchedIn(frags, table) ==
    {j \in WellFormed(frags) :
        /\ IsResponse(JSONparse(frags[j]).obj)
        /\ JSONparse(frags[j]).obj.request_id \notin table}
C7_UnmatchedDropped ==
    ( /\ last.op = "data"
      /\ \A j \in DOMAIN last.frags : last.frags[j] = <<>> \/ j \in WellFormed(last.frags)
      /\ UnmatchedIn(last.frags, last.pre) # {} ) =>
        /\ last.thrown = "none"
        /\ Len(NewParsed) = Cardinality(WellFormed(last.frags))
        /\ last.pre \ {m.request_id : m \in Range(NewParsed)} \subseteq DOMAIN ipcRequests

\* C8: a message without request_id, or with request_id 0, changes no promise
\* and no table entry, and the dataHandler run that parses it calls every
\* listener registered at that moment exactly once with the object the player
\* wrote; a listener sees events in the order the player wrote them.
PeerWrote(m) == \E a \in DOMAIN txLog : txLog[a].part = "open" /\ txLog[a].obj = m
InArrivalOrder(lg) ==
    \A a, b \in DOMAIN lg : a < b => lg[a].data < lg[b].data
C9_MalformedScoped ==
    ( /\ last.op = "data"
      /\ \E j \in DOMAIN last.frags : last.frags[j] = Junk ) =>
        Len(NewParsed) = Cardinality(WellFormed(last.frags))

\* C10: when a delivery starts with the second half of a JSON text whose first
\* half ended the delivery before, and brings its line break, that text has
\* been dispatched exactly once, and no half of it was handed to JSON.parse.
C10_SplitDispatchedOnce ==
    ( /\ last.op = "data"
      /\ Len(last.frags) >= 2
      /\ Len(last.frags[1]) = 1
      /\ last.frags[1][1].part = "close" ) =>
        /\ Cardinality({k \in DOMAIN parsed : parsed[k] = last.frags[1][1].obj}) = 1
        /\ last.thrown # "SyntaxError"

\* C11: for a chunk made of whole JSON texts and empty pieces only, dataHandler
\* dispatches exactly the texts of the chunk, each once, in their order, and
\* nothing for the empty pieces.
NonEmpty(piece) == piece # <<>>
ObjectsOf(frags) ==
    LET texts == SelectSeq(frags, NonEmpty)
    IN [j \in 1..Len(texts) |-> JSONparse(texts[j]).obj]
C11_ChunkDispatchedInOrder ==
    ( /\ last.op = "data"
      /\ \A j \in DOMAIN last.frags :
            last.frags[j] = <<>> \/ j \in WellFormed(last.frags) ) =>
        NewParsed = ObjectsOf(last.frags)

\* ------------------------------------------------------------------- C12
\* C12: load called while the player is not running fails with error 8, and
\* load called on a running player with a mode that is none of replace,
\* append, append-play fails with error 1; in both cases load's promise is
\* rejected with that error, no observing socket exists and no request was
\* made.
NothingStarted == observeSocket = "none" /\ issued = <<>> /\ cb = "none"
C12_PreconditionsFail ==
    loadOutcome.st # "none" =>
        /\ ~running =>
              /\ loadOutcome.st = "rejected"
              /\ loadOutcome.val.errcode = 8
              /\ loadOutcome.val.verbose = "MPV is not running"
              /\ NothingStarted
        /\ (running /\ lmode \notin {"replace", "append", "append-play"}) =>
              /\ loadOutcome.st = "rejected"
              /\ loadOutcome.val.errcode = 1
              /\ loadOutcome.val.verbose = "Invalid argument"
              /\ NothingStarted
C12_Witness ==
    /\ running
    /\ lmode = "shuffle"
    /\ loadOutcome.st = "rejected"
    /\ loadOutcome.val.errcode = 1

\* ------------------------------------------------------------------- C13
\* C13: in a load with mode append, or with mode append-play when the
\* playlist had more than one entry before the call, once the load command
\* and the playlist-length query have been answered the session has
\* concluded SilentSuccess: the observing socket is destroyed, it never had a
\* 'data' listener and no delivery was ever processed.
PastQuery == cb \in {"done", "watching"}
C13_SilentSuccess ==
    ( /\ PastQuery
      /\ \/ lmode = "append"
         \/ lmode = "append-play" /\ plBefore > 1 ) =>
        /\ cb = "done"
        /\ concl = <<"SilentSuccess">>
        /\ observeSocket = "destroyed"
        /\ issued = <<"loadfile", "playlist-count">>
        /\ ~obsListening
        /\ timeout = 0
        /\ llast = NoDelivery
C13_Witness ==
    /\ lmode = "append-play"
    /\ plBefore = 2
    /\ cb = "done"
    /\ concl = <<"SilentSuccess">>
    /\ observeSocket = "destroyed"

\* ------------------------------------------------------------------- C14
\* C14 as stated: a load with mode append-play made when the playlist had
\* exactly one entry, or none, does not conclude SilentSuccess: once the
\* query is answered the session is watching the player's events.
C14_BeforeCallThreshold ==
    ( /\ PastQuery
      /\ lmode = "append-play"
      /\ plBefore \in {0, 1} ) =>
        /\ cb = "watching"
        /\ obsListening
        /\ "SilentSuccess" \notin Range(concl)

\* C14 as amended: the threshold is on the length the query reports, and the
\* query is made after the load command.  A load with mode append-play whose
\* query reports one entry or none (the playlist was empty before the call)
\* does not conclude SilentSuccess: the session is watching the player's
\* events, and whatever it concluded it concluded in a delivery.
C14_QueryThreshold ==
    ( /\ PastQuery
      /\ lmode = "append-play"
      /\ playlist <= 1 ) =>
        /\ cb = "watching"
        /\ obsListening
        /\ "SilentSuccess" \notin Range(concl)
        /\ concl # <<>> => llast.op = "data"
C14_Witness ==
    /\ lmode = "append-play"
    /\ plBefore = 0
    /\ playlist = 1
    /\ cb = "watching"
    /\ obsListening
    /\ observeSocket = "open"

\* ------------------------------------------------------------------- C15
\* what the last delivery held, line by line: the event's name, or "junk"
\* for a line that is not a JSON text
NameOf(piece) == IF JSONparse(piece).ok THEN JSONparse(piece).obj.event ELSE "junk"
LastNames ==
    LET pieces == SelectSeq(split(llast.data), NonEmpty)
    IN [j \in 1..Len(pieces) |-> NameOf(pieces[j])]
\* a start-file was observed before line j of the last delivery
StartedBefore(j) ==
    llast.started0 \/ \E i \in 1..(j - 1) : LastNames[i] = "start-file"
\* line i of the last delivery makes the listener throw
Throws(i) ==
    \/ LastNames[i] = "junk"
    \/ LastNames[i] = "end-file" /\ StartedBefore(i)
\* the listener got as far as line j
Observed(j) == \A i \in 1..(j - 1) : ~Throws(i)
LoadedAfterStart ==
    \E j \in DOMAIN LastNames :
        LastNames[j] = "file-loaded" /\ StartedBefore(j) /\ Observed(j)

\* C15: in a load with mode replace that has had a delivery, the session has
\* concluded Success exactly when the listener observed a file-loaded event
\* after a start-file event; while no start-file has been observed, no
\* file-loaded and no end-file concludes anything, and below the timeout the
\* session is still open without a conclusion.
C15_SuccessAfterStart ==
    (lmode = "replace" /\ llast.op = "data") =>
        /\ "Success" \in Range(concl) <=> LoadedAfterStart
        /\ ~started =>
              /\ "Success" \notin Range(concl)
              /\ "Failed" \notin Range(concl)
              /\ timeout <= TimeoutLimit =>
                    concl = <<>> /\ observeSocket = "open"
C15_Witness ==
    /\ lmode = "replace"
    /\ llast.op = "data"
    /\ llast.started0
    /\ LastNames = <<"file-loaded">>
    /\ concl = <<"Success">>
    /\ observeSocket = "destroyed"

\* ------------------------------------------------------------------- C16
\* the listener observed an end-file after a start-file, with no file-loaded
\* between them
EndedAfterStart ==
    \E j \in DOMAIN LastNames :
        /\ LastNames[j] = "end-file"
        /\ StartedBefore(j)
        /\ Observed(j)
        /\ ~LoadedAfterStart

\* C16: in a load with mode replace, when an end-file event was observed
\* after a start-file event with no file-loaded between them, the session
\* has concluded Failed and load's promise is rejected with error 0, 'Unable
\* to load file or stream'.
C16_FailedReachesCaller ==
    (lmode = "replace" /\ llast.op = "data" /\ EndedAfterStart) =>
        /\ concl = <<"Failed">>
        /\ observeSocket = "destroyed"
        /\ loadOutcome.st = "rejected"
        /\ loadOutcome.val.errcode = 0
        /\ loadOutcome.val.verbose = "Unable to load file or stream"

\* ------------------------------------------------------------------- C17
NoTerminalEvent == "Success" \notin Range(concl) /\ "Failed" \notin Range(concl)

\* C17: every delivery on the observing socket increments the counter by
\* one; at the eleventh delivery a session no terminal event has concluded
\* concludes TimedOut, and load's promise is rejected with error 5,
\* 'Timeout'; up to the tenth delivery such a session is not concluded, and
\* without a delivery there is no TimedOut.
C17_TimeoutReachesCaller ==
    /\ llast.op = "none" => "TimedOut" \notin Range(concl)
    /\ llast.op = "data" =>
          /\ timeout = llast.timeout0 + 1
          /\ (timeout <= TimeoutLimit /\ NoTerminalEvent) =>
                concl = <<>> /\ observeSocket = "open"
          /\ (timeout = TimeoutLimit + 1 /\ NoTerminalEvent) =>
                /\ concl = <<"TimedOut">>
                /\ observeSocket = "destroyed"
                /\ loadOutcome.st = "rejected"
                /\ loadOutcome.val.errcode = 5
                /\ loadOutcome.val.verbose = "Timeout"

\* ------------------------------------------------------------------- C18
\* C18: whenever load's promise is settled after the two tests passed, the
\* observing socket of the session is destroyed.
ChecksPassed == running /\ lmode \in {"replace", "append", "append-play"}
C18_NoReturnWhileOpen ==
    (ChecksPassed /\ loadOutcome.st # "none") => observeSocket = "destroyed"

\* ------------------------------------------------------------------- C19
\* the session has stopped: it concluded, or the callback ended in a failure
\* of the load command or of the query
SessionStopped == concl # <<>> \/ cb = "rejected"

\* C19: whenever a session that opened its observing socket has stopped, the
\* socket is destroyed.
C19_ClosedOnEveryExit ==
    (observeSocket # "none" /\ SessionStopped) => observeSocket = "destroyed"

\* ------------------------------------------------------------------- C20
\* C20: when the load command fails, the session concludes Failed without
\* watching the player's events, and load's promise is rejected with that
\* failure.
C20_CommandFailureReachesCaller ==
    (cb = "rejected" /\ issued = <<"loadfile">>) =>
        /\ ~obsListening
        /\ concl = <<"Failed">>
        /\ loadOutcome.st = "rejected"
        /\ loadOutcome.val = cbErr

\* ------------------------------------------------------------------- C21
\* C21: a quit on an ipcInterface whose socket is already destroyed (by an
\* earlier quit, by closeHandler or by a failed connect) throws nothing and
\* leaves the socket destroyed and the table of pending requests, the
\* promises of the send calls and what was read from the player as they were.
C21_QuitIdempotent ==
    [][ (socket = "destroyed" /\ last'.op = "quit") =>
            /\ last'.thrown = "none"
            /\ socket' = "destroyed"
            /\ ipcRequests' = ipcRequests
            /\ calls' = calls
            /\ txLog' = txLog
            /\ rxCount' = rxCount
            /\ log' = log ]_vars
\* quit ran after a send had found the socket destroyed, with an entry still
\* in the table
C21_Witness ==
    /\ last.op = "quit"
    /\ socket = "destroyed"
    /\ \E i \in DOMAIN calls : calls[i].sock = "destroyed"
    /\ DOMAIN ipcRequests # {}

\* ------------------------------------------------------------------- C22
\* C22: a load session concludes at most once: after a conclusion no later
\* line of the same delivery and no later delivery changes the outcome, so
\* all the conclusions of a session are one and the same, and a session that
\* concluded Success concluded nothing else.  (A second destroy() for the
\* same conclusion is not counted against the claim.)
C22_ConcludesOnce ==
    /\ Cardinality(Range(concl)) <= 1
    /\ "Success" \in Range(concl) => Range(concl) = {"Success"}

\* ------------------------------------------------------------------- C23
\* the send calls whose write threw inside the try block
WriteFailed ==
    {i \in DOMAIN calls : calls[i].sock # "destroyed" /\ stringifyThrows(calls[i].command)}

\* C23: a send whose write fails is rejected with the structured error 7,
\* 'Could not send IPC message', that names send() and the command, and its
\* entry is no longer in the table of pending requests.
C23_WriteFailureStructured ==
    \A i \in WriteFailed :
        /\ calls[i].st = "rejected"
        /\ calls[i].val.kind = "ErrorObject"
        /\ calls[i].val.errcode = 7
        /\ calls[i].val.verbose = "Could not send IPC message"
        /\ calls[i].request_id \notin DOMAIN ipcRequests

\* ------------------------------------------------------------------- C24
\* C24: between two handlers (no send call is executing) the table of pending
\* requests is empty, and so no response that dataHandler dispatched found an
\* entry under its identifier.
C24_TableEmptyBetweenCalls ==
    /\ DOMAIN ipcRequests = {}
    /\ last.op = "data" =>
          \A k \in DOMAIN NewParsed :
              IsResponse(NewParsed[k]) => NewParsed[k].request_id \notin last.pre

====
